---- MODULE Spec2Model ----
\* Lifecycle of the MCP Apps embedding: AppsTab (tool catalog and selection)
\* hosting AppRenderer (fetch effect, setup effect with its asynchronous
\* setupApp, bridge callbacks, cleanup, render).
EXTENDS Naturals, Sequences, FiniteSets, TLC

----------------------------------------------------------------------------
\* Bounds of the model.

\* Number of runs of setupApp that can be in flight or referenced at one time
\* (a run whose bridge is closed, whose setupApp has returned and which nothing
\* references any more takes no further step and is dropped from `setups`).
MaxSetups == 2

----------------------------------------------------------------------------
\* Values.

\* Tool objects, by identity.
NoTool == "null"
ToolA == "A"
ToolB == "B"
\* a tool that declares no _meta.ui.resourceUri
ToolC == "C"
ToolUniverse == {ToolA, ToolB, ToolC}
\* values of the `tools` prop of AppsTab
Catalogs == {{ToolA, ToolB, ToolC}, {ToolB, ToolC}}

NoUri == ""
Uris == {"ui://a", "ui://b"}
\* keys of resourceContentMap that AppsTab looks up (uri || "")
MapKeys == Uris \cup {NoUri}

\* tool.name
ToolName(t) ==
    CASE t = ToolA -> "a" [] t = ToolB -> "b" [] t = ToolC -> "c" [] OTHER -> ""

\* tool._meta?.ui?.resourceUri, NoUri when there is none
MetaUiResourceUri(t) ==
    CASE t = ToolA -> "ui://a" [] t = ToolB -> "ui://b" [] OTHER -> NoUri

\* Strings handed around as resource content.
EmptyStr == ""
Html1 == "<html>1</html>"
Html2 == "<html>2</html>"
Envelope2 ==
    "{\"contents\":[{\"type\":\"blob\"},{\"type\":\"text\",\"text\":\"<html>2</html>\"}]}"
Payloads == {Html1, Envelope2}
\* the contents the read of a uri can deliver
PayloadsOf(u) == IF u = "ui://a" THEN {Html1, Envelope2} ELSE {Html1}

\* further strings a caller can hand over as resourceContent
JsonNull == "null"
JsonEmptyObject == "{}"
JsonArray == "[]"
EnvelopeNotList == "{\"contents\":\"x\"}"
EnvelopeNoText ==
    "{\"contents\":[{\"type\":\"blob\"}]}"
EnvelopeEmptyText ==
    "{\"contents\":[{\"type\":\"text\",\"text\":\"\"},{\"type\":\"text\",\"text\":\"<html>1</html>\"}]}"
EnvelopeNullEntry ==
    "{\"contents\":[null,{\"type\":\"text\",\"text\":\"<html>2</html>\"}]}"
\* the text of its one entry is the string Envelope2
EnvelopeNested ==
    "{\"contents\":[{\"type\":\"text\",\"text\":\"{\\\"contents\\\":[{\\\"type\\\":\\\"blob\\\"},{\\\"type\\\":\\\"text\\\",\\\"text\\\":\\\"<html>2</html>\\\"}]}\"}]}"

\* an entry of `contents`: null, or an object with its `type` and `text` (the
\* empty string where the entry has none)
Entry(type, text) == [isNull |-> FALSE, type |-> type, text |-> text]
NullEntry == [isNull |-> TRUE, type |-> "", text |-> ""]

\* a parsed value: null, or a value with its `contents` when that is an array
ParsedNull ==
    [ok |-> TRUE, isNull |-> TRUE, hasContents |-> FALSE, contents |-> <<>>]
ParsedWithout ==
    [ok |-> TRUE, isNull |-> FALSE, hasContents |-> FALSE, contents |-> <<>>]
ParsedWith(entries) ==
    [ok |-> TRUE, isNull |-> FALSE, hasContents |-> TRUE, contents |-> entries]
ParseThrows ==
    [ok |-> FALSE, isNull |-> FALSE, hasContents |-> FALSE, contents |-> <<>>]

\* JSON.parse on the strings above: ok = FALSE when it throws; hasContents:
\* parsed.contents && Array.isArray(parsed.contents)
JsonParse(str) ==
    CASE str = Envelope2 ->
            ParsedWith(<< Entry("blob", ""), Entry("text", Html2) >>)
      [] str = JsonNull -> ParsedNull
      [] str \in {JsonEmptyObject, JsonArray, EnvelopeNotList} -> ParsedWithout
      [] str = EnvelopeNoText -> ParsedWith(<< Entry("blob", "") >>)
      [] str = EnvelopeEmptyText ->
            ParsedWith(<< Entry("text", ""), Entry("text", Html1) >>)
      [] str = EnvelopeNullEntry ->
            ParsedWith(<< NullEntry, Entry("text", Html2) >>)
      [] str = EnvelopeNested -> ParsedWith(<< Entry("text", Envelope2) >>)
      [] OTHER -> ParseThrows

\* no uri has been passed to onReadResource
NoRead == "none"

NoClient == "null"
Clients == {"client"}

NoError == "null"
ErrNoDocument == "Could not access iframe document"
ErrNoWindow == "Iframe contentWindow not available"
ErrSetupGeneric == "Failed to set up app"
ErrGeneric == "An error occurred"
\* messages of the errors the bridge reports through onerror
Messages == {"widget crashed", ""}
\* what bridge.connect can reject with: an Error carrying a message, or a non-Error
Rejections == {[isError |-> TRUE, message |-> "widget crashed"],
               [isError |-> FALSE, message |-> ""]}

VARIABLES
    tools,              \* AppsTab prop `tools`
    appTools,           \* AppsTab state
    selectedTool,       \* AppsTab state; NoTool when AppRenderer is not mounted
    resourceContentMap, \* AppsTab prop
    mcpClient,          \* AppsTab prop
    lastRead,           \* uri the mounted instance last passed to onReadResource
    loading,            \* AppRenderer state
    error,              \* AppRenderer state
    initialized,        \* AppRenderer state
    setups,             \* the runs of setupApp, oldest first: closure and bridge
    iframeDoc,          \* markup last written into the mounted iframe
    switchedConnecting, \* history: the last step selected another tool while the
                        \* setup of the tool shown before was still connecting
    errorCurrent,       \* history: `error` was set by the attempt in force
    staleRead           \* history: the last step delivered the read of a uri
                        \* other than the one of the tool shown

vars == <<tools, appTools, selectedTool, resourceContentMap, mcpClient,
          lastRead, loading, error, initialized, setups,
          iframeDoc, switchedConnecting, errorCurrent, staleRead>>

parentVars == <<tools, appTools, selectedTool, resourceContentMap, mcpClient>>

----------------------------------------------------------------------------
\* Pure helpers.

hasUIMetadata(tool) == MetaUiResourceUri(tool) # NoUri

getToolUiResourceUri(tool) == MetaUiResourceUri(tool)

FilterTools(ts) == {t \in ts : hasUIMetadata(t)}

\* a filter effect that leaves the selection alone
SelectionKept(ts, sel) == sel

\* the filter effect's reset of a selection that is no longer available
SelectionAfterFilter(ts, sel) ==
    IF sel # NoTool /\ ~(\E t \in FilterTools(ts) : ToolName(t) = ToolName(sel))
    THEN NoTool ELSE sel

\* a parent that passes whatever content has arrived, of any uri
ResourceContentOfAnyUri(sel, map) ==
    IF map["ui://b"] # "" THEN map["ui://b"] ELSE map[getToolUiResourceUri(sel)]

\* the resourceContent prop AppsTab passes to AppRenderer
ResourceContentProp(sel, map) == map[getToolUiResourceUri(sel)]

Truthy(s) == s # EmptyStr

\* index of the first entry with type "text" and a non-empty text, 0 if none
FirstTextEntry(entries) ==
    LET hits == {i \in 1..Len(entries) :
                    entries[i].type = "text" /\ Truthy(entries[i].text)}
    IN IF hits = {} THEN 0 ELSE CHOOSE i \in hits : \A j \in hits : i <= j

\* contents.find(c => c.type === "text" && c.text) throws: it reads `type` of
\* a null entry before it has found an entry
FindThrows(entries) ==
    \E j \in 1..Len(entries) :
        /\ entries[j].isNull
        /\ FirstTextEntry(entries) = 0 \/ j < FirstTextEntry(entries)

\* the htmlContent setupApp writes for a resourceContent; whatever is thrown
\* inside the try block leaves htmlContent = resourceContent
ResolveContent(raw) ==
    LET parsed == JsonParse(raw)
    IN IF /\ parsed.ok
          /\ ~parsed.isNull
          /\ parsed.hasContents
          /\ ~FindThrows(parsed.contents)
          /\ FirstTextEntry(parsed.contents) # 0
       THEN parsed.contents[FirstTextEntry(parsed.contents)].text
       ELSE raw

\* setError(error.message || "An error occurred")
OnErrorMessage(m) == IF m # "" THEN m ELSE ErrGeneric

\* a catch block that reports every failure under the one generic message
CatchMessageGeneric(r) == ErrSetupGeneric

\* setError(err instanceof Error ? err.message : "Failed to set up app")
CatchMessage(r) == IF r.isError THEN r.message ELSE ErrSetupGeneric

----------------------------------------------------------------------------
\* The runs of setupApp that can still act or are still referenced.

\* A run is garbage when nothing it can still do reaches the component: its
\* instance is unmounted (setState is then a no-op, its ref is unreachable and
\* its iframe is detached), or its setupApp has returned, its bridge is closed
\* and nothing refers to it.
Garbage(s) ==
    \/ s.orphan
    \/ /\ s.cleaned
       /\ ~s.live
       /\ s.pc \in {"failed", "connected"}
       /\ ~s.ref
       /\ ~s.active

NotGarbage(s) == ~Garbage(s)

\* `setups` holds a run for one more state after it became garbage; the steps
\* act on the runs that are not garbage
LiveSetups == SelectSeq(setups, NotGarbage)

\* bridgeRef.current: index in setups of the run whose bridge it holds, 0 = null
bridgeRef ==
    IF \E i \in DOMAIN setups : setups[i].ref
    THEN CHOOSE i \in DOMAIN setups : setups[i].ref ELSE 0

\* the setup effect run whose cleanup is pending, 0 = none
activeSetup ==
    IF \E i \in DOMAIN setups : setups[i].active
    THEN CHOOSE i \in DOMAIN setups : setups[i].active ELSE 0

----------------------------------------------------------------------------
\* The effects of AppRenderer.

\* fetch effect: if (resourceUri)
FetchGuard(uri) == uri # NoUri

\* fetch effect dependencies [resourceUri, onReadResource]
FetchDepsChanged(oldUri, newUri, cbChanged) ==
    oldUri # newUri \/ cbChanged

\* a setup effect that does not look at the client
SetupGuardWithoutClient(content, iframeMounted, client) ==
    Truthy(content) /\ iframeMounted

\* a setup effect that does not look at the iframe ref
SetupGuardWithoutIframe(content, iframeMounted, client) ==
    Truthy(content) /\ client # NoClient

\* setup effect: if (!resourceContent || !iframeRef.current || !mcpClient) return
SetupGuard(content, iframeMounted, client) ==
    Truthy(content) /\ iframeMounted /\ client # NoClient

\* setup effect dependencies [resourceContent, mcpClient]
SetupDepsChanged(oldContent, newContent, oldClient, newClient) ==
    oldContent # newContent \/ oldClient # newClient

\* setupApp up to its first await: the bridge is constructed, the callbacks are
\* registered, and the document is written unless it cannot be accessed
NewSetup(docOk) ==
    [pc |-> IF docOk THEN "await_load" ELSE "failed",
     active |-> TRUE,          \* the cleanup of this effect run is pending
     cleaned |-> FALSE,        \* the cleanup of this effect run has executed
     closeCalls |-> 0,         \* invocations of bridge.close()
     live |-> FALSE,           \* transport started and not closed since
     initFired |-> FALSE,      \* oninitialized has been called
     ref |-> FALSE,            \* bridgeRef.current is the bridge of this run
     orphan |-> FALSE,         \* the component instance has been unmounted
     attached |-> TRUE]        \* the iframe element is still in the document

\* a cleanup that closes the bridge bridgeRef.current holds, which is
\* only there once connect has resolved
CloseIfConnected(s) ==
    IF s.pc = "connected"
    THEN [s EXCEPT !.active = FALSE, !.cleaned = TRUE,
                   !.closeCalls = @ + 1, !.live = FALSE]
    ELSE [s EXCEPT !.active = FALSE, !.cleaned = TRUE]

\* cleanup: if (bridge) bridge.close().catch(console.error)
CloseOnCleanup(s) ==
    [s EXCEPT !.active = FALSE,
              !.cleaned = TRUE,
              !.closeCalls = @ + 1,
              !.live = FALSE]

\* a cleanup that clears the reference only when the promise of close() fulfils
RefKeptOnReject(ref, closeOk) == IF closeOk THEN FALSE ELSE ref

\* cleanup: bridgeRef.current = null; closeOk: the promise of close() fulfils
RefAfterCleanup(ref, closeOk) == FALSE

\* cleanup: setInitialized(false)
InitializedAfterCleanup(init, closeOk) == FALSE

\* One render and commit of AppsTab/AppRenderer with the given selection and
\* props: refs detached, cleanup of the setup effect, fetch effect, setup effect
\* (with the synchronous part of setupApp).
Render(ts, sel, map, cl, cbChanged) ==
    LET L == LiveSetups
        wasMounted == selectedTool # NoTool
        isMounted == sel # NoTool
        oldUri == getToolUiResourceUri(selectedTool)
        newUri == getToolUiResourceUri(sel)
        oldContent == ResourceContentProp(selectedTool, resourceContentMap)
        newContent == ResourceContentProp(sel, map)
        mount == isMounted /\ ~wasMounted
        unmount == wasMounted /\ ~isMounted
        update == wasMounted /\ isMounted
        iframeKept == update /\ oldUri # NoUri /\ newUri # NoUri
        iframeNow == isMounted /\ newUri # NoUri
        setupDeps == update /\ SetupDepsChanged(oldContent, newContent, mcpClient, cl)
        fetchRerun == mount \/
                      (update /\ FetchDepsChanged(oldUri, newUri, cbChanged))
        cleanup == (\E i \in DOMAIN L : L[i].active) /\ (unmount \/ setupDeps)
        doFetch == fetchRerun /\ FetchGuard(newUri)
        doSetup == (mount \/ setupDeps) /\ SetupGuard(newContent, iframeNow, cl)
        \* state of the instance before its effects run
        loading0 == IF mount THEN TRUE ELSE loading
        error0 == IF mount THEN NoError ELSE error
        init0 == IF mount THEN FALSE ELSE initialized
        doc0 == IF iframeKept THEN iframeDoc ELSE EmptyStr
        Kept(closeOk) ==
            [i \in DOMAIN L |->
                LET a == [L[i] EXCEPT !.orphan = @ \/ unmount,
                                      !.attached = @ /\ iframeKept,
                                      !.ref = IF unmount THEN FALSE
                                              ELSE IF cleanup
                                                   THEN RefAfterCleanup(@, closeOk)
                                              ELSE @]
                IN IF cleanup /\ a.active THEN CloseOnCleanup(a) ELSE a]
    IN /\ doSetup => Len(L) < MaxSetups
       /\ tools' = ts
       /\ appTools' = FilterTools(ts)
       /\ selectedTool' = sel
       /\ resourceContentMap' = map
       /\ mcpClient' = cl
       /\ lastRead' = IF ~isMounted THEN NoRead
                      ELSE IF doFetch THEN newUri
                      ELSE IF mount THEN NoRead ELSE lastRead
       \* whether close() rejects is a choice only when it is called
       /\ \E closeOk \in IF cleanup THEN BOOLEAN ELSE {TRUE} :
            /\ initialized' = IF ~isMounted THEN FALSE
                              ELSE IF cleanup
                                   THEN InitializedAfterCleanup(init0, closeOk)
                              ELSE init0
            \* whether the iframe document is there is a choice only in setupApp
            /\ \E docOk \in IF doSetup THEN BOOLEAN ELSE {TRUE} :
                 /\ setups' = IF doSetup
                              THEN Append(Kept(closeOk), NewSetup(docOk))
                              ELSE IF L = <<>> THEN <<>> ELSE Kept(closeOk)
                 /\ loading' = IF ~isMounted THEN TRUE
                               ELSE IF doSetup /\ ~docOk THEN FALSE
                               ELSE IF doFetch THEN TRUE ELSE loading0
                 /\ error' = IF ~isMounted THEN NoError
                             ELSE IF doSetup /\ ~docOk
                                  THEN CatchMessage([isError |-> TRUE,
                                                     message |-> ErrNoDocument])
                             ELSE IF doFetch THEN NoError ELSE error0
                 /\ iframeDoc' = IF doSetup /\ docOk
                                 THEN ResolveContent(newContent) ELSE doc0
                 /\ errorCurrent' = IF ~isMounted THEN FALSE
                                    ELSE IF doSetup THEN ~docOk
                                    ELSE IF cleanup \/ doFetch \/ mount THEN FALSE
                                    ELSE errorCurrent

----------------------------------------------------------------------------
\* What AppRenderer renders, and the status that stands for.

IsMounted == selectedTool # NoTool

resourceUri == getToolUiResourceUri(selectedTool)

\* if (!resourceUri) return <Alert>No UI resource URI found in tool metadata
ConfigAlertShown == IsMounted /\ resourceUri = NoUri

\* {loading && <Alert>Loading MCP App...}
LoadingShown == IsMounted /\ resourceUri # NoUri /\ loading

\* {error && <Alert variant="destructive">{error}}
ErrorBannerShown ==
    IsMounted /\ resourceUri # NoUri /\ error # NoError /\ error # ""

\* <iframe style={{display: loading ? "none" : "block"}}>
IframeVisible == IsMounted /\ resourceUri # NoUri /\ ~loading

\* {initialized && <div>App connected}
ConnectedShown == IsMounted /\ resourceUri # NoUri /\ initialized

\* the setup of the effect run in force is under way: its handshake has neither
\* completed nor has the setup failed
Connecting ==
    \E i \in DOMAIN setups :
        /\ setups[i].active
        /\ setups[i].pc \in {"await_load", "await_connect", "connected"}
        /\ ~setups[i].initFired

----------------------------------------------------------------------------
\* AppsTab: the operations of the parent.

\* onClick={() => setSelectedTool(tool)} on a card of appTools
SelectTool(t) ==
    /\ t \in appTools
    /\ t # selectedTool
    /\ Render(tools, SelectionAfterFilter(tools, t), resourceContentMap,
              mcpClient, FALSE)
    /\ switchedConnecting' = (selectedTool # NoTool /\ Connecting)
    /\ staleRead' = FALSE

\* handleCloseApp
CloseApp ==
    /\ selectedTool # NoTool
    /\ Render(tools, NoTool, resourceContentMap, mcpClient, FALSE)
    /\ switchedConnecting' = FALSE
    /\ staleRead' = FALSE

\* the `tools` prop changes; the filter effect runs
SetTools(ts) ==
    /\ ts # tools
    /\ Render(ts, SelectionAfterFilter(ts, selectedTool), resourceContentMap,
              mcpClient, FALSE)
    /\ switchedConnecting' = FALSE
    /\ staleRead' = FALSE

\* the result of a read arrives in the `resourceContentMap` prop
ReadDelivered(u, c) ==
    /\ c # resourceContentMap[u]
    /\ Render(tools, selectedTool, [resourceContentMap EXCEPT ![u] = c],
              mcpClient, FALSE)
    /\ switchedConnecting' = FALSE
    /\ staleRead' = (selectedTool # NoTool /\ u # getToolUiResourceUri(selectedTool))

\* the `mcpClient` prop changes (connect / disconnect)
SetClient(cl) ==
    /\ cl # mcpClient
    /\ Render(tools, selectedTool, resourceContentMap, cl, FALSE)
    /\ switchedConnecting' = FALSE
    /\ staleRead' = FALSE

\* the `onReadResource` prop gets a new identity
SetOnReadResource ==
    /\ Render(tools, selectedTool, resourceContentMap, mcpClient, TRUE)
    /\ switchedConnecting' = FALSE
    /\ staleRead' = FALSE

\* AppRenderer under a parent other than AppsTab: any tool may be rendered
RenderTool(t) ==
    /\ t # selectedTool
    /\ Render(tools, t, resourceContentMap, mcpClient, FALSE)
    /\ switchedConnecting' = (selectedTool # NoTool /\ Connecting)
    /\ staleRead' = FALSE

\* AppRenderer under a parent other than AppsTab: any resourceContent
SetContent(k, c) ==
    /\ c # resourceContentMap[k]
    /\ Render(tools, selectedTool, [resourceContentMap EXCEPT ![k] = c],
              mcpClient, FALSE)
    /\ switchedConnecting' = FALSE
    /\ staleRead' = (selectedTool # NoTool /\ k # getToolUiResourceUri(selectedTool))

----------------------------------------------------------------------------
\* setupApp after its awaits, and the callbacks of the bridge.  s is an index
\* of LiveSetups; the instance of such a run is mounted, so its setState calls
\* take effect.

\* what a step of a run of setupApp or of a bridge callback leaves alone
AsyncFrame ==
    /\ switchedConnecting' = FALSE
    /\ staleRead' = FALSE
    /\ UNCHANGED <<parentVars, lastRead, iframeDoc>>

\* the load signal resolves the awaited promise; win: iframe.contentWindow is
\* there, and then the transport is constructed and bridge.connect called
LoadSignal(s, win) ==
    LET L == LiveSetups
    IN /\ s \in DOMAIN L
       /\ L[s].pc = "await_load"
       /\ win => L[s].attached
       /\ setups' = [L EXCEPT ![s].pc = IF win THEN "await_connect" ELSE "failed",
                              ![s].live = win]
       /\ error' = IF ~win
                   THEN CatchMessage([isError |-> TRUE, message |-> ErrNoWindow])
                   ELSE error
       /\ loading' = IF ~win THEN FALSE ELSE loading
       /\ errorCurrent' = IF ~win THEN L[s].active ELSE errorCurrent
       /\ UNCHANGED initialized
       /\ AsyncFrame

\* await bridge.connect(transport) resolves: bridgeRef.current = bridge
ConnectResolves(s) ==
    LET L == LiveSetups
    IN /\ s \in DOMAIN L
       /\ L[s].pc = "await_connect"
       /\ setups' = [i \in DOMAIN L |->
                        IF i = s THEN [L[i] EXCEPT !.pc = "connected", !.ref = TRUE]
                        ELSE [L[i] EXCEPT !.ref = FALSE]]
       /\ UNCHANGED <<loading, error, initialized, errorCurrent>>
       /\ AsyncFrame

\* await bridge.connect(transport) rejects: the catch block
ConnectRejects(s, r) ==
    LET L == LiveSetups
    IN /\ s \in DOMAIN L
       /\ L[s].pc = "await_connect"
       /\ setups' = [L EXCEPT ![s].pc = "failed", ![s].live = FALSE]
       /\ error' = CatchMessage(r)
       /\ loading' = FALSE
       /\ errorCurrent' = L[s].active
       /\ UNCHANGED initialized
       /\ AsyncFrame

\* bridge.oninitialized
OnInitialized(s) ==
    LET L == LiveSetups
    IN /\ s \in DOMAIN L
       /\ L[s].live
       /\ ~L[s].initFired
       /\ setups' = [L EXCEPT ![s].initFired = TRUE]
       /\ initialized' = TRUE
       /\ loading' = FALSE
       /\ UNCHANGED <<error, errorCurrent>>
       /\ AsyncFrame

\* bridge.onerror
OnError(s, m) ==
    LET L == LiveSetups
    IN /\ s \in DOMAIN L
       /\ L[s].live
       /\ setups' = L
       /\ error' = OnErrorMessage(m)
       /\ errorCurrent' = L[s].active
       /\ UNCHANGED <<loading, initialized>>
       /\ AsyncFrame

----------------------------------------------------------------------------
\* Specification: AppsTab hosting AppRenderer.

Init ==
    /\ tools \in Catalogs
    /\ appTools = FilterTools(tools)
    /\ selectedTool = NoTool
    /\ resourceContentMap = [k \in MapKeys |-> EmptyStr]
    /\ mcpClient \in Clients \cup {NoClient}
    /\ lastRead = NoRead
    /\ loading = TRUE
    /\ error = NoError
    /\ initialized = FALSE
    /\ setups = <<>>
    /\ iframeDoc = EmptyStr
    /\ switchedConnecting = FALSE
    /\ errorCurrent = FALSE
    /\ staleRead = FALSE

Next ==
    \/ \E t \in ToolUniverse : SelectTool(t)
    \/ CloseApp
    \/ \E ts \in Catalogs : SetTools(ts)
    \/ \E u \in Uris : \E c \in PayloadsOf(u) : ReadDelivered(u, c)
    \/ \E cl \in Clients \cup {NoClient} : SetClient(cl)
    \/ SetOnReadResource
    \/ \E s \in 1..MaxSetups, win \in BOOLEAN : LoadSignal(s, win)
    \/ \E s \in 1..MaxSetups : ConnectResolves(s)
    \/ \E s \in 1..MaxSetups, r \in Rejections : ConnectRejects(s, r)
    \/ \E s \in 1..MaxSetups : OnInitialized(s)
    \/ \E s \in 1..MaxSetups, m \in Messages : OnError(s, m)

Spec == Init /\ [][Next]_vars

----------------------------------------------------------------------------
\* Specification: AppRenderer under any parent.  The parent may render any
\* tool, with or without a resource uri, with any resourceContent and client.

RTools == {ToolA, ToolC}
RKeys == {"ui://a", NoUri}
RContents == {EmptyStr, Html1}

InitR == Init /\ tools = ToolUniverse

NextR ==
    \/ \E t \in RTools : RenderTool(t)
    \/ CloseApp
    \/ \E k \in RKeys, c \in RContents : SetContent(k, c)
    \/ \E cl \in Clients \cup {NoClient} : SetClient(cl)
    \/ SetOnReadResource
    \/ \E s \in 1..MaxSetups, win \in BOOLEAN : LoadSignal(s, win)
    \/ \E s \in 1..MaxSetups : ConnectResolves(s)
    \/ \E s \in 1..MaxSetups, r \in Rejections : ConnectRejects(s, r)
    \/ \E s \in 1..MaxSetups : OnInitialized(s)
    \/ \E s \in 1..MaxSetups, m \in Messages : OnError(s, m)

SpecR == InitR /\ [][NextR]_vars

----------------------------------------------------------------------------
\* Properties.

\* C1: the component is Ready (initialized) only after the handshake of the
\* setup attempt in force has completed; an oninitialized of an earlier,
\* torn-down attempt never makes it Ready.
ReadyOnlyAfterOwnHandshake ==
    initialized =>
        \E i \in DOMAIN setups : setups[i].active /\ setups[i].initFired

\* C2: a setup attempt that has been torn down takes no further step: after
\* its cleanup its setupApp does not go on to connect a transport, store the
\* bridge reference or change the status.
TornDownSetupInert ==
    [][\A s \in 1..MaxSetups :
          (s \in DOMAIN LiveSetups /\ LiveSetups[s].cleaned) =>
              /\ ~(\E win \in BOOLEAN : LoadSignal(s, win))
              /\ ~ConnectResolves(s)
              /\ ~(\E r \in Rejections : ConnectRejects(s, r))]_vars

\* C3: at any time at most one bridge has been constructed and not yet closed:
\* the bridge of the previous attempt is closed before the next is constructed,
\* also when the tool is switched while the previous attempt is connecting.
AtMostOneOpenBridge ==
    Cardinality({i \in DOMAIN setups : setups[i].closeCalls = 0}) <= 1

\* C3 witness: a tool was selected while the attempt of the tool shown before
\* was connecting; that attempt's bridge is closed and a new attempt is open
OpenBridgeAfterSwitchWhileConnecting ==
    /\ switchedConnecting
    /\ \E i, j \in DOMAIN setups :
          /\ setups[i].closeCalls = 1
          /\ setups[i].pc \in {"await_load", "await_connect"}
          /\ ~setups[i].initFired
          /\ setups[j].active
          /\ setups[j].closeCalls = 0

\* C4: selecting tool B while tool A is Ready closes A's bridge before B's
\* setup; A's bridge is never kept for B.
SwitchClosesReadyBridge ==
    [][( /\ selectedTool # NoTool
         /\ selectedTool' # NoTool
         /\ selectedTool' # selectedTool
         /\ initialized
         /\ \E i \in DOMAIN LiveSetups :
               LiveSetups[i].active /\ LiveSetups[i].initFired )
       => \A i \in DOMAIN LiveSetups :
             LiveSetups[i].active =>
                 setups'[i].closeCalls = 1 /\ ~setups'[i].active]_vars

\* C5: close() is invoked at most once on a bridge, and exactly once on every
\* bridge of an unmounted component, also when its setup had failed; whether
\* close() rejects or not, the cleanup clears the bridge reference and resets
\* initialized.
CloseOncePerBridge ==
    /\ [](\A i \in DOMAIN setups :
             /\ setups[i].closeCalls <= 1
             /\ setups[i].orphan => setups[i].closeCalls = 1)
    /\ [][(\E i \in DOMAIN LiveSetups :
              /\ LiveSetups[i].closeCalls = 0
              /\ i \in DOMAIN setups'
              /\ setups'[i].closeCalls > 0)
          => /\ \A i \in DOMAIN setups' : ~setups'[i].ref
             /\ ~initialized']_vars

\* C5 witness: the component is unmounted, and the bridge of its attempt, which
\* had failed, has been closed once
ClosedOnceOnUnmountAfterFailure ==
    /\ ~IsMounted
    /\ \E i \in DOMAIN setups :
          /\ setups[i].orphan
          /\ setups[i].pc = "failed"
          /\ setups[i].closeCalls = 1

\* C6: a mounted component is in exactly one status: NoResource (no resource
\* uri), Loading/Connecting (loading), Ready (initialized) or Failed (error).
ExactlyOneStatus ==
    IsMounted =>
        Cardinality({k \in 1..4 :
            \/ k = 1 /\ resourceUri = NoUri
            \/ k = 2 /\ resourceUri # NoUri /\ loading
            \/ k = 3 /\ resourceUri # NoUri /\ initialized
            \/ k = 4 /\ resourceUri # NoUri /\ error # NoError}) = 1

\* C7: Failed is terminal: once the attempt in force has set the error, and
\* as long as neither the tool, the content nor the client changes, the
\* component does not become Ready and the error is not replaced by another.
\* Stated of the steps taken while no torn-down attempt is left, so that only
\* the attempt in force can act.
FailedIsTerminal ==
    [][( /\ IsMounted
         /\ error # NoError
         /\ errorCurrent
         /\ \A i \in DOMAIN LiveSetups : LiveSetups[i].active
         /\ UNCHANGED parentVars ) =>
          /\ initialized' => initialized
          /\ error' # NoError => error' = error]_vars

\* C8: when the bridge of the attempt in force reports an error with message m
\* after the handshake, the component is Failed with reason m: the error
\* banner is shown and the iframe is hidden.
OnErrorAfterHandshakeFails ==
    [][\A s \in 1..MaxSetups, m \in Messages \ {""} :
          ( /\ s \in DOMAIN LiveSetups
            /\ LiveSetups[s].active
            /\ LiveSetups[s].initFired
            /\ initialized
            /\ OnError(s, m) )
          => (error' = m /\ ErrorBannerShown' /\ ~IframeVisible')]_vars

\* C9: the iframe is hidden while Loading or Connecting and is visible only in
\* Ready: never while an error is shown, never while an attempt is connecting.
IframeVisibleOnlyWhenReady ==
    /\ IframeVisible => initialized
    /\ (error # NoError \/ Connecting) => ~IframeVisible

\* C10: while the tool rendered declares no resource uri the component shows
\* the configuration alert and nothing else happens: no read is requested, no
\* document is written, no bridge is constructed and no transport connected,
\* whatever the content and client props are and whatever was shown before.
NoResourceIsInert ==
    /\ [](( IsMounted /\ resourceUri = NoUri ) =>
             /\ ConfigAlertShown
             /\ ~IframeVisible
             /\ iframeDoc = EmptyStr)
    /\ [][( selectedTool' # NoTool /\ getToolUiResourceUri(selectedTool') = NoUri ) =>
             /\ lastRead' \in {lastRead, NoRead} \ {NoUri}
             /\ Len(setups') <= Len(LiveSetups)
             /\ \A i \in DOMAIN setups' :
                   /\ setups'[i].live => LiveSetups[i].live
                   /\ setups'[i].pc \in {"await_connect", "connected"} =>
                          LiveSetups[i].pc \in {"await_connect", "connected"}]_vars

\* C10 witness: a tool without resource uri is rendered after a tool with one,
\* whose attempt is still awaiting the load signal; the client is connected
\* and the resourceContent prop is not empty
NoResourceAmidValidProps ==
    /\ selectedTool = ToolC
    /\ mcpClient # NoClient
    /\ ResourceContentProp(selectedTool, resourceContentMap) # EmptyStr
    /\ lastRead = "ui://a"
    /\ \E i \in DOMAIN setups :
          ~setups[i].orphan /\ setups[i].pc = "await_load"

\* C11: Ready is entered only from Loading/Connecting (loading is true just
\* before initialized becomes true), and only by an attempt in force none of
\* whose steps has failed.  Stated of the steps taken while no torn-down
\* attempt is left, so that only the attempt in force can act.
ReadyOnlyThroughLoading ==
    [][( /\ IsMounted
         /\ \A i \in DOMAIN LiveSetups : LiveSetups[i].active
         /\ ~initialized
         /\ initialized' ) =>
          /\ loading
          /\ \E i \in DOMAIN LiveSetups :
                LiveSetups[i].active /\ LiveSetups[i].pc # "failed"]_vars

----------------------------------------------------------------------------
\* Specification: AppsTab hosting AppRenderer in an environment where every
\* step succeeds (the iframe document and its contentWindow are there, connect
\* resolves, the guest reports no error) and is eventually taken: the read of
\* the selected tool's resource is delivered, the load signal fires, connect
\* resolves and the guest completes the handshake.

\* the read of the selected tool's resource is delivered
DeliverRead ==
    /\ IsMounted
    /\ resourceContentMap[resourceUri] = EmptyStr
    /\ \E c \in PayloadsOf(resourceUri) : ReadDelivered(resourceUri, c)
    /\ error' = NoError

InitF == Init /\ tools = ToolUniverse

NextF ==
    \/ \E t \in ToolUniverse : SelectTool(t) /\ error' = NoError
    \/ CloseApp
    \/ \E u \in Uris : \E c \in PayloadsOf(u) : ReadDelivered(u, c) /\ error' = NoError
    \/ \E cl \in Clients \cup {NoClient} : SetClient(cl) /\ error' = NoError
    \/ \E s \in 1..MaxSetups : LoadSignal(s, TRUE)
    \/ \E s \in 1..MaxSetups : ConnectResolves(s)
    \/ \E s \in 1..MaxSetups : OnInitialized(s)

SpecF ==
    /\ InitF
    /\ [][NextF]_vars
    /\ WF_vars(DeliverRead)
    /\ WF_vars(\E s \in 1..MaxSetups : LoadSignal(s, TRUE))
    /\ WF_vars(\E s \in 1..MaxSetups : ConnectResolves(s))
    /\ WF_vars(\E s \in 1..MaxSetups : OnInitialized(s))

\* C12: once the selected tool, its content and the client stop changing (a
\* tool is selected and a client is there), the component eventually is Ready
\* with loading false and the iframe shown, and stays so.
SettlesInReady ==
    ( /\ <>[][UNCHANGED parentVars]_vars
      /\ <>[](IsMounted /\ mcpClient # NoClient) )
    => <>[](initialized /\ ~loading /\ IframeVisible)
\* C13: a read result that arrives for a uri other than the one of the tool
\* shown is ignored: it neither tears down nor restarts the session (no run
\* is closed, none is started, the status stays), and what is written into the
\* iframe is only ever the content of the uri of the tool shown.
StaleReadIgnored ==
    /\ [][\A u \in Uris :
             ( /\ IsMounted
               /\ u # resourceUri
               /\ \E c \in PayloadsOf(u) : ReadDelivered(u, c) )
             => /\ setups' = LiveSetups
                /\ UNCHANGED <<selectedTool, iframeDoc, loading, error,
                               initialized, lastRead>>]_vars
    /\ [][( iframeDoc' # iframeDoc /\ iframeDoc' # EmptyStr )
             => iframeDoc' = ResolveContent(resourceContentMap'[resourceUri'])]_vars

\* C13 witness: while the setup of the tool shown is connecting, the read of
\* the other uri has just been delivered
StaleReadWhileConnecting ==
    /\ staleRead
    /\ Connecting
    /\ iframeDoc # EmptyStr
    /\ \E u \in Uris : u # resourceUri /\ resourceContentMap[u] # EmptyStr
----------------------------------------------------------------------------
\* Specification: AppRenderer of a tool with a resource uri under a parent
\* that hands over any string as resourceContent; setupApp resolves it and
\* writes the result into the iframe.

RawStrings == {Html1, Envelope2, JsonNull, JsonEmptyObject, JsonArray,
               EnvelopeNotList, EnvelopeNoText, EnvelopeEmptyText,
               EnvelopeNullEntry, EnvelopeNested}

InitC == Init /\ tools = ToolUniverse /\ mcpClient # NoClient

NextC ==
    \/ RenderTool(ToolA)
    \/ CloseApp
    \/ \E c \in RawStrings \cup {EmptyStr} : SetContent("ui://a", c)
    \/ \E s \in 1..MaxSetups, win \in BOOLEAN : LoadSignal(s, win)
    \/ \E s \in 1..MaxSetups : ConnectResolves(s)
    \/ \E s \in 1..MaxSetups : OnInitialized(s)

SpecC == InitC /\ [][NextC]_vars

\* the document of the iframe has been written by the setup in force
WrittenBySetupInForce ==
    \E i \in DOMAIN setups : setups[i].active /\ setups[i].pc # "failed"

\* C14: what setupApp writes for a raw string is what the reference resolver
\* gives: the text of the first entry with type "text" carrying text when raw
\* parses to a record whose `contents` is a list with such an entry, and raw
\* itself otherwise.
ResolutionEqualsReference ==
    WrittenBySetupInForce =>
        LET raw == ResourceContentProp(selectedTool, resourceContentMap)
            parsed == JsonParse(raw)
            reference ==
                IF /\ parsed.ok
                   /\ ~parsed.isNull
                   /\ parsed.hasContents
                   /\ \E i \in 1..Len(parsed.contents) :
                         /\ ~parsed.contents[i].isNull
                         /\ parsed.contents[i].type = "text"
                         /\ parsed.contents[i].text # ""
                THEN LET first == CHOOSE i \in 1..Len(parsed.contents) :
                            /\ ~parsed.contents[i].isNull
                            /\ parsed.contents[i].type = "text"
                            /\ parsed.contents[i].text # ""
                            /\ \A j \in 1..(i - 1) :
                                  \/ parsed.contents[j].isNull
                                  \/ parsed.contents[j].type # "text"
                                  \/ parsed.contents[j].text = ""
                     IN parsed.contents[first].text
                ELSE raw
        IN iframeDoc = reference

\* C15: resolving is idempotent: resolving what setupApp has written gives
\* the same markup again, also when the text entry of the envelope is itself
\* an envelope.
ResolutionIdempotent ==
    WrittenBySetupInForce => ResolveContent(iframeDoc) = iframeDoc
\* C16: a setup (bridge constructed, markup written, connect to follow) is
\* started only when the content of the uri of the tool shown is there
\* (non-empty), a client exists and the iframe is mounted; none is started
\* for a tool whose content is not yet known.
SetupOnlyWhenContentClientIframe ==
    [][Len(setups') > Len(LiveSetups) =>
          /\ IsMounted'
          /\ resourceUri' # NoUri
          /\ resourceContentMap'[resourceUri'] # EmptyStr
          /\ mcpClient' # NoClient]_vars

\* C16 witness: the content of the tool shown is there, a client exists, and
\* the one setup started on them is awaiting the load signal
SetupStartedOnContent ==
    /\ Len(setups) = 1
    /\ setups[1].active
    /\ setups[1].pc = "await_load"
    /\ lastRead = resourceUri
    /\ resourceContentMap[resourceUri] # EmptyStr
    /\ mcpClient # NoClient
    /\ ~staleRead
\* C17: within one setup the transport is constructed and connect invoked only
\* after the markup has been written, the load signal observed and the
\* contentWindow found; a setup whose iframe document cannot be accessed, or
\* whose contentWindow is absent after the load signal, ends in Failed with
\* that reason and loading cleared, and never constructs a transport or
\* invokes connect.
ConnectOnlyAfterHostReady ==
    [][\A i \in DOMAIN setups' :
          LET new == i > Len(LiveSetups)
              connects == /\ setups'[i].pc = "await_connect"
                          /\ new \/ LiveSetups[i].pc # "await_connect"
              started == /\ setups'[i].live
                         /\ new \/ ~LiveSetups[i].live
          IN /\ (connects \/ started) =>
                    /\ ~new
                    /\ LiveSetups[i].pc = "await_load"
                    /\ LiveSetups[i].attached
                    /\ iframeDoc # EmptyStr
                    /\ setups'[i].pc = "await_connect"
                    /\ setups'[i].live
             /\ (new /\ setups'[i].pc = "failed") =>
                    /\ error' = ErrNoDocument
                    /\ ~loading'
                    /\ ~setups'[i].live
             /\ (~new /\ LiveSetups[i].pc = "await_load"
                      /\ setups'[i].pc = "failed") =>
                    /\ error' = ErrNoWindow
                    /\ ~loading'
                    /\ ~setups'[i].live
             /\ (~new /\ LiveSetups[i].pc = "failed"
                      /\ ~LiveSetups[i].live) =>
                    /\ setups'[i].pc = "failed"
                    /\ ~setups'[i].live]_vars

\* C17 witness: the setup in force has observed the load signal, found no
\* contentWindow and ended in Failed with that reason, loading cleared, no
\* transport started
FailedForMissingContentWindow ==
    /\ errorCurrent
    /\ error = ErrNoWindow
    /\ ~loading
    /\ \E i \in DOMAIN setups :
          /\ setups[i].active
          /\ setups[i].pc = "failed"
          /\ ~setups[i].live
          /\ setups[i].attached
\* C18: in AppsTab, once the effects have run, the selected tool is null or a
\* tool whose name is among the tools of the current list that declare a
\* resource uri; when the list changes so that the name of the selected tool is
\* no longer among them, the selection is reset to null, which unmounts
\* AppRenderer and closes its bridge.
SelectionAmongAppTools ==
    /\ [](/\ appTools = FilterTools(tools)
          /\ \/ selectedTool = NoTool
             \/ \E t \in appTools : ToolName(t) = ToolName(selectedTool))
    /\ [][( /\ tools' # tools
            /\ selectedTool # NoTool
            /\ ~\E t \in FilterTools(tools') : ToolName(t) = ToolName(selectedTool) )
          => /\ selectedTool' = NoTool
             /\ \A i \in DOMAIN LiveSetups :
                   /\ setups'[i].orphan
                   /\ setups'[i].closeCalls = 1
                   /\ ~setups'[i].ref]_vars

\* C18 witness: the list has just changed to one without the tool that was
\* shown (the only tool whose content had been read); the selection is null
\* and the bridge of that tool's setup has been closed
SelectionResetOnListChange ==
    /\ tools = {ToolB, ToolC}
    /\ selectedTool = NoTool
    /\ resourceContentMap["ui://b"] = EmptyStr
    /\ \E i \in DOMAIN setups :
          /\ setups[i].orphan
          /\ setups[i].initFired
          /\ setups[i].closeCalls = 1
\* C19: bridgeRef.current is null or the bridge of the setup in force, which
\* has completed connect and on which close() has not been invoked; it never
\* refers to the bridge of an earlier, torn-down setup.
BridgeRefIsCurrentOpenBridge ==
    \A i \in DOMAIN setups :
        setups[i].ref =>
            /\ setups[i].active
            /\ ~setups[i].cleaned
            /\ setups[i].pc = "connected"
            /\ setups[i].closeCalls = 0
\* C20: once the component is Ready for a uri, content and client, loading
\* stays false and the iframe stays visible for as long as tool, content and
\* client do not change, also when the onReadResource callback gets a new
\* identity.  Stated of the steps taken while the setup in force has completed
\* its handshake and no torn-down attempt is left.
ReadyStaysVisible ==
    [][( /\ IsMounted
         /\ initialized
         /\ ~loading
         /\ \A i \in DOMAIN LiveSetups :
               LiveSetups[i].active /\ LiveSetups[i].initFired
         /\ UNCHANGED parentVars )
       => (~loading' /\ IframeVisible')]_vars

====
